---- MODULE Spec2Model ----
(***************************************************************************)
(* The hearing scheduling engine of justicegraph:                          *)
(*   src/optimization/scheduler.py          HearingScheduler               *)
(*   src/optimization/constraint_builder.py ConstraintBuilder              *)
(*   src/optimization/optimization_utils.py calculate_efficiency,          *)
(*                                          validate_schedule              *)
(*                                                                         *)
(* A date is a day number whose weekday is the number modulo 7 (Monday is  *)
(* 0, as date.weekday() has it), so start_date + timedelta(days=i) is      *)
(* start_date + i.  A frame (pandas DataFrame) is the sequence of its rows *)
(* together with its column set: a frame built from an empty list of       *)
(* records has no columns at all.  Rows carry the columns the engine       *)
(* decides on (case_id, judge_id, hearing_date, priority_score);           *)
(* case_number, judge_name and estimated_duration_hours are copied through *)
(* from the inputs and are left out.  The case frame always carries a      *)
(* priority_score column, as generate_optimal_schedule builds it, and the  *)
(* case ids and the judge ids are distinct, as the keys they are read from *)
(* are.  A duration is a number of half hours: the default 0.5 hours of a   *)
(* hearing is 1 and the default 6 working hours are 12.                    *)
(***************************************************************************)
EXTENDS Integers, Sequences, FiniteSets

\* Bounds of the model: cases per frame, judges per frame, days of the
\* horizon, the two capacity limits, priority levels; the cases of a frame
\* handed to the solver (its model has cases x judges x days booleans) and
\* of a frame given to two runs that are compared.
MaxCases == 3
MaxJudges == 2
MaxDays == 2
MaxLimit == 2
MaxPriority == 2
MaxSolverCases == 2
MaxPairCases == 2

\* A priority_score is a float (models/data_models.py:205): the model
\* counts it in steps of 1/PriorityScale, so that with a scale of 2 the
\* score 1 stands for 0.5 and the score 2 for 1.0.  Comparisons of scores
\* are as they are in the code; only int() sees the scale.
PriorityScale == 2

\* Bounds of the validated frames and rule lists: rows of a frame, rules of
\* a list, (rule, row) checks of one validation, days a deadline allows.
MaxRows == 2
MaxRules == 2
MaxChecks == 4
MaxDeadlineDays == 1

\* Bounds of the configuration: working hours and average hearing duration,
\* in half hours.
MaxHours == 2
MaxDuration == 2

\* date.weekday() of a Saturday (scheduler.py:108, constraint_builder.py:357).
Saturday == 5

Runs == {1, 2}

VARIABLES
    max_hearings_per_day,    \* HearingScheduler.max_hearings_per_day
    max_hearings_per_judge,  \* HearingScheduler.max_hearings_per_judge
    cases_df,                \* input: sequence of [case_id, priority_score]
    judges_df,               \* input: sequence of judge ids
    start_date,              \* input
    num_days,                \* input
    raised,                  \* how the second run's case frame differs
    run,                     \* per call of schedule_hearings_heuristic
    opt,                     \* the call of schedule_hearings_optimized
    constraints,             \* ConstraintBuilder.constraints
    val,                     \* the call of ConstraintBuilder.validate_schedule
    scheduler,               \* HearingScheduler: constructed?, its other fields
    schedule_df,             \* input: the frame a caller has validated
    today,                   \* input: datetime.now().date()
    add_exception,           \* what the last ConstraintBuilder.add_* call raised
    eff,                     \* the call of calculate_efficiency
    chk                      \* the call of optimization_utils.validate_schedule

vars == <<max_hearings_per_day, max_hearings_per_judge,
          cases_df, judges_df, start_date, num_days, raised, run, opt,
          constraints, val, scheduler, schedule_df, today, add_exception, eff, chk>>

inputs == <<max_hearings_per_day, max_hearings_per_judge,
            cases_df, judges_df, start_date, num_days, raised,
            scheduler, schedule_df, today>>

-----------------------------------------------------------------------------
\* Dates and frames

Weekday(d) == d % 7

\* Off by one: only Sunday counts as the weekend.
IsWeekendSundayOnly(d) == Weekday(d) > Saturday

\* if hearing_date.weekday() >= 5 (scheduler.py:108)
IsWeekend(d) == Weekday(d) >= Saturday

HorizonDates == {start_date + i : i \in 0..(num_days - 1)}

ScheduleColumns == {"case_id", "judge_id", "hearing_date", "priority_score"}

\* pd.DataFrame(list of records)
DataFrame(rows) ==
    [columns |-> IF rows = <<>> THEN {} ELSE ScheduleColumns, rows |-> rows]

Range(s) == {s[i] : i \in DOMAIN s}

\* The case frame a run is given: the first run's is cases_df, the second
\* run's is the same frame with at most one priority_score raised.
CasesOf(r) ==
    IF r = 1 \/ raised.k = 0 THEN cases_df
    ELSE [cases_df EXCEPT ![raised.k].priority_score = raised.p]

\* cases_df.sort_values('priority_score', ascending=False): the rows in
\* descending priority order.  The default sort kind is not stable, so the
\* order among equal priorities is whatever the build's sort yields.
\* The sort without ascending=False.
IsSortedAsc(s) ==
    \A i \in 1..(Len(s) - 1) : s[i].priority_score <= s[i + 1].priority_score

IsSortedDesc(s) ==
    \A i \in 1..(Len(s) - 1) : s[i].priority_score >= s[i + 1].priority_score

RowOrders(s) ==
    {t \in [DOMAIN s -> Range(s)] : \A x \in Range(s) : \E i \in DOMAIN t : t[i] = x}

sort_values(df) == {s \in RowOrders(df) : IsSortedDesc(s)}

-----------------------------------------------------------------------------
\* schedule_hearings_heuristic (scheduler.py:63-148)

NoSlot == [judge_id |-> 0, hearing_date |-> -1]

\* The scan of the judges that takes the judge with id 1 when it finds no
\* judge with capacity.
RECURSIVE TryJudgesElseFirstId(_, _, _)
TryJudgesElseFirstId(judge_daily_hearings, hearing_date, j) ==
    IF j > Len(judges_df) THEN 1
    ELSE IF judge_daily_hearings[<<judges_df[j], hearing_date>>] < max_hearings_per_judge
         THEN judges_df[j]
         ELSE TryJudgesElseFirstId(judge_daily_hearings, hearing_date, j + 1)

\* The scan of the judges from the end of the frame to its start.
RECURSIVE TryJudgesFromLast(_, _, _)
TryJudgesFromLast(judge_daily_hearings, hearing_date, j) ==
    IF j > Len(judges_df) THEN 0
    ELSE LET judge_id == judges_df[Len(judges_df) + 1 - j]
         IN  IF judge_daily_hearings[<<judge_id, hearing_date>>] < max_hearings_per_judge
             THEN judge_id
             ELSE TryJudgesFromLast(judge_daily_hearings, hearing_date, j + 1)

\* for _, judge_row in judges_df.iterrows(): the first judge, in frame
\* order from position j on, whose count on hearing_date is below the limit;
\* 0 when there is none.
RECURSIVE TryJudges(_, _, _)
TryJudges(judge_daily_hearings, hearing_date, j) ==
    IF j > Len(judges_df) THEN 0
    ELSE IF judge_daily_hearings[<<judges_df[j], hearing_date>>] < max_hearings_per_judge
         THEN judges_df[j]
         ELSE TryJudges(judge_daily_hearings, hearing_date, j + 1)

\* The scan of the days without the check of the court's daily capacity.
RECURSIVE TryDaysNoDailyCap(_, _, _)
TryDaysNoDailyCap(daily_hearings, judge_daily_hearings, day_offset) ==
    IF day_offset >= num_days THEN NoSlot
    ELSE LET hearing_date == start_date + day_offset
             judge_id == TryJudges(judge_daily_hearings, hearing_date, 1)
         IN  IF IsWeekend(hearing_date)
             THEN TryDaysNoDailyCap(daily_hearings, judge_daily_hearings, day_offset + 1)
             ELSE IF judge_id = 0
             THEN TryDaysNoDailyCap(daily_hearings, judge_daily_hearings, day_offset + 1)
             ELSE [judge_id |-> judge_id, hearing_date |-> hearing_date]

\* The scan of the days giving up at the first day that is full (break
\* where the code has continue).
RECURSIVE TryDaysBreakWhenFull(_, _, _)
TryDaysBreakWhenFull(daily_hearings, judge_daily_hearings, day_offset) ==
    IF day_offset >= num_days THEN NoSlot
    ELSE LET hearing_date == start_date + day_offset
             judge_id == TryJudges(judge_daily_hearings, hearing_date, 1)
         IN  IF IsWeekend(hearing_date)
             THEN TryDaysBreakWhenFull(daily_hearings, judge_daily_hearings, day_offset + 1)
             ELSE IF daily_hearings[hearing_date] >= max_hearings_per_day
             THEN NoSlot
             ELSE IF judge_id = 0
             THEN NoSlot
             ELSE [judge_id |-> judge_id, hearing_date |-> hearing_date]

\* The scan of the days from the end of the horizon to its start.
RECURSIVE TryDaysFromLast(_, _, _)
TryDaysFromLast(daily_hearings, judge_daily_hearings, day_offset) ==
    IF day_offset >= num_days THEN NoSlot
    ELSE LET hearing_date == start_date + (num_days - 1 - day_offset)
             judge_id == TryJudges(judge_daily_hearings, hearing_date, 1)
         IN  IF IsWeekend(hearing_date)
             THEN TryDaysFromLast(daily_hearings, judge_daily_hearings, day_offset + 1)
             ELSE IF daily_hearings[hearing_date] >= max_hearings_per_day
             THEN TryDaysFromLast(daily_hearings, judge_daily_hearings, day_offset + 1)
             ELSE IF judge_id = 0
             THEN TryDaysFromLast(daily_hearings, judge_daily_hearings, day_offset + 1)
             ELSE [judge_id |-> judge_id, hearing_date |-> hearing_date]

\* for day_offset in range(num_days): the first slot from day_offset on.
RECURSIVE TryDays(_, _, _)
TryDays(daily_hearings, judge_daily_hearings, day_offset) ==
    IF day_offset >= num_days THEN NoSlot
    ELSE LET hearing_date == start_date + day_offset
             judge_id == TryJudges(judge_daily_hearings, hearing_date, 1)
         IN  IF IsWeekend(hearing_date)
             THEN TryDays(daily_hearings, judge_daily_hearings, day_offset + 1)
             ELSE IF daily_hearings[hearing_date] >= max_hearings_per_day
             THEN TryDays(daily_hearings, judge_daily_hearings, day_offset + 1)
             ELSE IF judge_id = 0
             THEN TryDays(daily_hearings, judge_daily_hearings, day_offset + 1)
             ELSE [judge_id |-> judge_id, hearing_date |-> hearing_date]

\* The counters kept on the scheduler and not reset: a call starts from
\* the counts an earlier call left.
InitDailyHearingsShared(r) ==
    IF \E q \in Runs \ {r} : run[q].pc = "done"
    THEN run[CHOOSE q \in Runs \ {r} : run[q].pc = "done"].daily_hearings
    ELSE [d \in HorizonDates |-> 0]

\* daily_hearings = {current_date + timedelta(days=i): 0 ...}
InitDailyHearings(r) == [d \in HorizonDates |-> 0]

\* judge_daily_hearings = {(judge_id, date): 0 ...}
InitJudgeDailyHearings(r) == [k \in Range(judges_df) \X HorizonDates |-> 0]

\* A run's position and locals.  unscheduled collects the case ids for which
\* line 143 logged "Could not schedule case".
IdleRun ==
    [pc |-> "idle", cases |-> <<>>, idx |-> 0, schedule |-> <<>>,
     unscheduled |-> {}, daily_hearings |-> <<>>,
     judge_daily_hearings |-> <<>>, result |-> DataFrame(<<>>)]

\* The same frame always sorts to the same order: a run given the frame
\* another run was given sees the order that run saw.
SortAgrees(r, s) ==
    \A q \in Runs \ {r} :
        (run[q].pc # "idle" /\ CasesOf(q) = CasesOf(r)) => run[q].cases = s

\* Lines 82-97: the run with the cases sorted to s, an empty schedule and
\* the counters at zero.
FreshRun(r, s) ==
    [pc |-> "loop", cases |-> s, idx |-> 1, schedule |-> <<>>,
     unscheduled |-> {},
     daily_hearings |-> InitDailyHearings(r),
     judge_daily_hearings |-> InitJudgeDailyHearings(r),
     result |-> DataFrame(<<>>)]

BeginRun(r) ==
    /\ run[r].pc = "idle"
    /\ \E s \in sort_values(CasesOf(r)) :
          /\ SortAgrees(r, s)
          /\ run' = [run EXCEPT ![r] = FreshRun(r, s)]

\* A call of schedule_hearings_heuristic by the caller.
HeuristicBegin(r) ==
    /\ opt.pc = "idle"
    /\ BeginRun(r)
    /\ UNCHANGED <<inputs, opt, constraints, val, add_exception, eff, chk>>

\* An assignment that counts the hearing twice on the court's counter.
AssignSlotCountedTwice(st, case_row, slot) ==
    [st EXCEPT
        !.schedule = Append(@,
            [case_id |-> case_row.case_id,
             judge_id |-> slot.judge_id,
             hearing_date |-> slot.hearing_date,
             priority_score |-> case_row.priority_score]),
        !.daily_hearings[slot.hearing_date] = @ + 2,
        !.judge_daily_hearings[<<slot.judge_id, slot.hearing_date>>] = @ + 1]

\* Lines 122-136: the row is appended and both counters go up by one.
AssignSlot(st, case_row, slot) ==
    [st EXCEPT
        !.schedule = Append(@,
            [case_id |-> case_row.case_id,
             judge_id |-> slot.judge_id,
             hearing_date |-> slot.hearing_date,
             priority_score |-> case_row.priority_score]),
        !.daily_hearings[slot.hearing_date] = @ + 1,
        !.judge_daily_hearings[<<slot.judge_id, slot.hearing_date>>] = @ + 1]

\* The loop over the days without the break at lines 139-140: the case is
\* given a second slot when there is one.
ScheduleCaseNoBreak(st, case_row) ==
    LET slot == TryDays(st.daily_hearings, st.judge_daily_hearings, 0)
        once == AssignSlot(st, case_row, slot)
        again == TryDays(once.daily_hearings, once.judge_daily_hearings, 0)
    IN  IF slot = NoSlot
        THEN [st EXCEPT !.idx = @ + 1,
                        !.unscheduled = @ \cup {case_row.case_id}]
        ELSE IF again = NoSlot
        THEN [once EXCEPT !.idx = @ + 1]
        ELSE [AssignSlot(once, case_row, again) EXCEPT !.idx = @ + 1]

\* The pass that logs nothing for a case it found no slot for.
ScheduleCaseUnlogged(st, case_row) ==
    LET slot == TryDays(st.daily_hearings, st.judge_daily_hearings, 0)
    IN  IF slot = NoSlot
        THEN [st EXCEPT !.idx = @ + 1]
        ELSE [AssignSlot(st, case_row, slot) EXCEPT !.idx = @ + 1]

\* The run after one pass of the loop over the cases (lines 100-143) for
\* case_row: the case gets the first slot and the scan stops there, or it
\* gets none and "Could not schedule case" is logged.
ScheduleCase(st, case_row) ==
    LET slot == TryDays(st.daily_hearings, st.judge_daily_hearings, 0)
    IN  IF slot = NoSlot
        THEN [st EXCEPT !.idx = @ + 1,
                        !.unscheduled = @ \cup {case_row.case_id}]
        ELSE [AssignSlot(st, case_row, slot) EXCEPT !.idx = @ + 1]

\* The counters kept on the scheduler: what a pass of the loop counts is
\* seen by every run that is in its loop.
HeuristicCaseSharedCounters(r) ==
    /\ run[r].pc = "loop"
    /\ run[r].idx <= Len(run[r].cases)
    /\ LET st == ScheduleCase(run[r], run[r].cases[run[r].idx])
       IN  run' = [q \in Runs |->
                     IF q = r THEN st
                     ELSE IF run[q].pc = "loop"
                     THEN [run[q] EXCEPT
                             !.daily_hearings = st.daily_hearings,
                             !.judge_daily_hearings = st.judge_daily_hearings]
                     ELSE run[q]]
    /\ UNCHANGED <<inputs, opt, constraints, val, add_exception, eff, chk>>

\* One pass of the loop over the cases (lines 100-143) in run r.
HeuristicCase(r) ==
    /\ run[r].pc = "loop"
    /\ run[r].idx <= Len(run[r].cases)
    /\ run' = [run EXCEPT ![r] = ScheduleCase(@, @.cases[@.idx])]
    /\ UNCHANGED <<inputs, opt, constraints, val, add_exception, eff, chk>>

\* Lines 145-148: schedule_df = pd.DataFrame(schedule); return schedule_df
HeuristicReturn(r) ==
    /\ run[r].pc = "loop"
    /\ run[r].idx > Len(run[r].cases)
    /\ run' = [run EXCEPT ![r].pc = "done",
                          ![r].result = DataFrame(run[r].schedule)]
    /\ UNCHANGED <<inputs, opt, constraints, val, add_exception, eff, chk>>

\* The whole loop at once: the run when every case has been processed.
RECURSIVE RunLoop(_)
RunLoop(st) ==
    IF st.idx > Len(st.cases) THEN st
    ELSE RunLoop(ScheduleCase(st, st.cases[st.idx]))

\* What schedule_hearings_heuristic returns when its sort yields s.
HeuristicSchedule(r, s) == DataFrame(RunLoop(FreshRun(r, s)).schedule)

\* A call of schedule_hearings_heuristic from entry to return.
HeuristicCall(r) ==
    /\ run[r].pc = "idle"
    /\ \E s \in sort_values(CasesOf(r)) :
          /\ SortAgrees(r, s)
          /\ run' = [run EXCEPT ![r] =
                [RunLoop(FreshRun(r, s)) EXCEPT
                    !.pc = "done", !.result = HeuristicSchedule(r, s)]]
    /\ UNCHANGED <<inputs, opt, constraints, val, add_exception, eff, chk>>

-----------------------------------------------------------------------------
\* schedule_hearings_optimized (scheduler.py:150-263)

IdleOpt == [pc |-> "idle", status |-> "NONE", result |-> DataFrame(<<>>)]

CaseIdx == 1..Len(cases_df)
JudgeIdx == 1..Len(judges_df)
DayIdx == 0..(num_days - 1)

\* Lines 184-197: one boolean per (case, judge, day), and for each case
\* exactly one of them set: a solution gives each case one (judge, day).
Assignments == [CaseIdx -> JudgeIdx \X DayIdx]

\* Lines 199-205: judge capacity per day.
JudgeCapacityOk(a) ==
    \A j \in JudgeIdx, d \in DayIdx :
        Cardinality({c \in CaseIdx : a[c] = <<j, d>>}) <= max_hearings_per_judge

\* Lines 207-214: court capacity per day.
CourtCapacityOk(a) ==
    \A d \in DayIdx :
        Cardinality({c \in CaseIdx : a[c][2] = d}) <= max_hearings_per_day

Feasible == {a \in Assignments : JudgeCapacityOk(a) /\ CourtCapacityOk(a)}

\* Line 226: int(priority * time_weight), the product cut down to a whole
\* number (the operands are not negative, so cutting is rounding down).
IntProduct(priority, time_weight) == (priority * time_weight) \div PriorityScale

\* Lines 216-228: sum of int(priority * (num_days - d)) over the cases.
RECURSIVE ObjectiveFrom(_, _)
ObjectiveFrom(a, c) ==
    IF c > Len(cases_df) THEN 0
    ELSE IntProduct(cases_df[c].priority_score, num_days - a[c][2])
            + ObjectiveFrom(a, c + 1)

Objective(a) == ObjectiveFrom(a, 1)

\* The solutions no other solution beats.
Optimal ==
    LET scored == {<<a, Objective(a)>> : a \in Feasible}
        best == CHOOSE x \in {y[2] : y \in scored} : \A y \in scored : y[2] <= x
    IN  {y[1] : y \in {z \in scored : z[2] = best}}

\* An extraction that keeps the rows of the first day only.
ExtractScheduleFirstDay(a) ==
    LET rows == [c \in CaseIdx |->
                    [case_id |-> cases_df[c].case_id,
                     judge_id |-> judges_df[a[c][1]],
                     hearing_date |-> start_date + a[c][2],
                     priority_score |-> cases_df[c].priority_score]]
        OnFirstDay(row) == row.hearing_date = start_date
    IN  SelectSeq(rows, OnFirstDay)

\* Lines 239-256: the rows of a solution, in case order.
ExtractSchedule(a) ==
    [c \in CaseIdx |->
        [case_id |-> cases_df[c].case_id,
         judge_id |-> judges_df[a[c][1]],
         hearing_date |-> start_date + a[c][2],
         priority_score |-> cases_df[c].priority_score]]

\* Lines 235-258: the solver ended OPTIMAL or FEASIBLE with solution a.
SolverFound(status, a) ==
    opt' = [pc |-> "done", status |-> status,
            result |-> DataFrame(ExtractSchedule(a))]

\* The fallback giving up with an empty frame.
FallbackEmpty(s) == DataFrame(<<>>)

\* What the fallback hands back when the heuristic's sort yields s:
\* return self.schedule_hearings_heuristic(cases_df, judges_df, start_date,
\* num_days)
FallbackResult(s) == HeuristicSchedule(1, s)

\* Lines 169-171 and 260-263: the whole run is delegated to the heuristic.
FallBack(status) ==
    \E s \in sort_values(cases_df) :
        opt' = [pc |-> "done", status |-> status, result |-> FallbackResult(s)]

\* ORTOOLS_AVAILABLE is what the guarded import at lines 16-21 found.  With
\* the solver, solver.Solve(model) under its time budget ends OPTIMAL with a
\* best solution, FEASIBLE with any solution, INFEASIBLE when there is none,
\* UNKNOWN when the budget ran out first.
OptimizedCall ==
    /\ opt.pc = "idle"
    /\ run[1].pc = "idle"
    /\ Len(cases_df) <= MaxSolverCases
    /\ \E ORTOOLS_AVAILABLE \in BOOLEAN :
          \/ /\ ~ORTOOLS_AVAILABLE
             /\ FallBack("UNAVAILABLE")
          \/ /\ ORTOOLS_AVAILABLE
             /\ \E a \in Optimal : SolverFound("OPTIMAL", a)
          \/ /\ ORTOOLS_AVAILABLE
             /\ \E a \in Feasible : SolverFound("FEASIBLE", a)
          \/ /\ ORTOOLS_AVAILABLE
             /\ Feasible = {}
             /\ FallBack("INFEASIBLE")
          \/ /\ ORTOOLS_AVAILABLE
             /\ FallBack("UNKNOWN")
    /\ UNCHANGED <<inputs, run, constraints, val, add_exception, eff, chk>>

-----------------------------------------------------------------------------
\* calculate_efficiency (optimization_utils.py:91-158)

IdleEff == [pc |-> "idle", exception |-> "none", metrics |-> <<>>]

\* round(n / d * 100, 2) in hundredths of a percent and round(n / d, 2) in
\* hundredths, for d > 0; with whole n and d below 8 no quotient falls
\* half way between two hundredths.
Percent(n, d) == (2 * 10000 * n + d) \div (2 * d)

Ratio(n, d) == (2 * 100 * n + d) \div (2 * d)

\* schedule_df[column]: KeyError when the frame lacks the column.
ColumnRaises(frame, column) == column \notin frame.columns

\* schedule_df[column].nunique()
nunique(frame, column) == Cardinality({frame.rows[i][column] : i \in DOMAIN frame.rows})

\* Lines 109-123: coverage_rate, judge_utilization and avg_hearings_per_day.
\* The per-judge spread, the priority averages, the days to the first
\* hearing and the slot utilization (lines 125-155) are computed after
\* these from the same columns and are left out.
calculate_efficiency(frame, cases, judges) ==
    IF ColumnRaises(frame, "case_id")
    THEN [pc |-> "done", exception |-> "KeyError", metrics |-> <<>>]
    ELSE LET total_cases == Len(cases)
             scheduled_cases == nunique(frame, "case_id")
             total_judges == Len(judges)
             judges_assigned == nunique(frame, "judge_id")
             days_scheduled == nunique(frame, "hearing_date")
         IN  [pc |-> "done", exception |-> "none",
              metrics |->
                [coverage_rate |->
                    IF total_cases > 0 THEN Percent(scheduled_cases, total_cases) ELSE 0,
                 judge_utilization |->
                    IF total_judges > 0 THEN Percent(judges_assigned, total_judges) ELSE 0,
                 avg_hearings_per_day |->
                    IF days_scheduled > 0 THEN Ratio(Len(frame.rows), days_scheduled) ELSE 0]]

\* The caller measures the schedule the heuristic returned:
\* calculate_efficiency(schedule_df, cases_df, judges_df).
EfficiencyCall ==
    /\ run[1].pc = "done"
    /\ eff.pc = "idle"
    /\ eff' = calculate_efficiency(run[1].result, cases_df, judges_df)
    /\ UNCHANGED <<inputs, run, opt, constraints, val, add_exception, chk>>

-----------------------------------------------------------------------------
\* optimization_utils.validate_schedule (optimization_utils.py:19-88), the
\* check of a schedule frame's structure.  It shares its name with the
\* builder's method and is utils_validate_schedule here.

IdleChk == [pc |-> "idle", is_valid |-> FALSE, issues |-> <<>>]

\* Lines 36-40: the default of required_columns.
RequiredColumns ==
    {"case_id", "judge_id", "hearing_date", "case_number", "judge_name"}

\* The columns copied through from the inputs, which the model's rows leave
\* out: a frame that has columns has these too.
CopiedColumns == {"case_number", "judge_name", "estimated_duration_hours"}

ColumnsOf(frame) ==
    IF frame.columns = {} THEN {} ELSE frame.columns \cup CopiedColumns

\* timedelta(days=365), line 76.
OneYear == 365

\* schedule_df.duplicated(subset=['case_id', 'hearing_date'], keep=False)
\* .any(), lines 61-63.
HasDuplicates(frame) ==
    \E i, k \in DOMAIN frame.rows :
        /\ i # k
        /\ frame.rows[i].case_id = frame.rows[k].case_id
        /\ frame.rows[i].hearing_date = frame.rows[k].hearing_date

\* The issues of lines 49-79 in the order they are appended.  The null
\* counts of lines 54-58 are left out: the rows of the model have a value
\* in every column.
IssuesOf(frame, required_columns) ==
    LET columns == ColumnsOf(frame)
        dated == "hearing_date" \in columns
    IN  (IF required_columns \ columns # {}
         THEN <<"Missing required columns">> ELSE <<>>)
        \o (IF {"case_id", "hearing_date"} \subseteq columns /\ HasDuplicates(frame)
            THEN <<"duplicate case-date assignments">> ELSE <<>>)
        \o (IF dated /\ \E i \in DOMAIN frame.rows : frame.rows[i].hearing_date < today
            THEN <<"hearings scheduled in the past">> ELSE <<>>)
        \o (IF dated /\ \E i \in DOMAIN frame.rows :
                            frame.rows[i].hearing_date > today + OneYear
            THEN <<"Schedule extends beyond 1 year">> ELSE <<>>)

\* validate_schedule(schedule_df, required_columns=None): lines 44-46 end
\* the call for a frame without rows or without columns (schedule_df.empty)
\* with the one issue "Schedule is empty"; line 81 makes is_valid of the
\* issue list.
utils_validate_schedule(frame, required_columns) ==
    IF frame.rows = <<>> \/ frame.columns = {}
    THEN [pc |-> "done", is_valid |-> FALSE, issues |-> <<"Schedule is empty">>]
    ELSE LET issues == IssuesOf(frame, required_columns)
         IN  [pc |-> "done", is_valid |-> Len(issues) = 0, issues |-> issues]

\* A caller checks the structure of a frame it holds:
\* validate_schedule(schedule_df).
StructureCall ==
    /\ chk.pc = "idle"
    /\ chk' = utils_validate_schedule(schedule_df, RequiredColumns)
    /\ UNCHANGED <<inputs, run, opt, constraints, val, add_exception, eff>>

\* The caller is done with the result.
StructureReturn ==
    /\ chk.pc = "done"
    /\ chk' = IdleChk
    /\ UNCHANGED <<inputs, run, opt, constraints, val, add_exception, eff>>

-----------------------------------------------------------------------------
\* ConstraintBuilder (constraint_builder.py)

IdleVal ==
    [pc |-> "idle", exception |-> "none", is_valid |-> FALSE, violations |-> <<>>]

\* Lines 27-44.
add_max_hearings_per_day(cs, max_hearings) ==
    Append(cs, [type |-> "max_hearings_per_day", value |-> max_hearings])

\* Lines 46-63.
add_max_hearings_per_judge(cs, max_hearings) ==
    Append(cs, [type |-> "max_hearings_per_judge", value |-> max_hearings])

\* Lines 65-88.
add_priority_deadline(cs, priority_threshold, max_days) ==
    Append(cs, [type |-> "priority_deadline",
                priority_threshold |-> priority_threshold,
                max_days |-> max_days])

\* int(x / y) for y # 0: the quotient cut towards zero.
IntQuotient(x, y) ==
    LET Abs(n) == IF n < 0 THEN -n ELSE n
        q == Abs(x) \div Abs(y)
    IN  IF (x < 0) = (y < 0) THEN q ELSE -q

\* Lines 115-140, when the division at line 130 goes through.
add_working_hours_limit(cs, max_hours, avg_hearing_duration) ==
    Append(cs, [type |-> "working_hours_limit",
                max_hours |-> max_hours,
                avg_duration |-> avg_hearing_duration,
                max_hearings_derived |-> IntQuotient(max_hours, avg_hearing_duration)])

\* Lines 90-113.
add_minimum_gap_between_hearings(cs, case_type, min_days) ==
    Append(cs, [type |-> "minimum_gap", case_type |-> case_type, min_days |-> min_days])

\* Lines 142-165.
add_judge_specialization(cs, judge_id, case_types) ==
    Append(cs, [type |-> "judge_specialization", judge_id |-> judge_id,
                case_types |-> case_types])

\* Lines 201-218.
add_balanced_workload(cs, tolerance) ==
    Append(cs, [type |-> "balanced_workload", tolerance |-> tolerance])

\* Lines 167-180.
add_no_weekend_scheduling(cs) == Append(cs, [type |-> "no_weekends"])

\* Lines 182-199.
add_holiday_exclusion(cs, holidays) ==
    Append(cs, [type |-> "holiday_exclusion", holidays |-> holidays])

\* groupby('hearing_date').size() lists its groups by ascending date.
RECURSIVE SortedDates(_)
SortedDates(S) ==
    IF S = {} THEN <<>>
    ELSE LET m == CHOOSE x \in S : \A y \in S : x <= y
         IN  <<m>> \o SortedDates(S \ {m})

\* groupby(['judge_id', 'hearing_date']).size() lists its groups by
\* ascending judge_id, then date.
KeyBefore(x, y) == x[1] < y[1] \/ (x[1] = y[1] /\ x[2] <= y[2])

RECURSIVE SortedKeys(_)
SortedKeys(S) ==
    IF S = {} THEN <<>>
    ELSE LET m == CHOOSE x \in S : \A y \in S : KeyBefore(x, y)
         IN  <<m>> \o SortedKeys(S \ {m})

\* schedule_df.groupby(by): KeyError when the frame lacks a column of by.
GroupByRaises(frame, by) == ~(by \subseteq frame.columns)

\* Lines 286-303.
validate_max_hearings_per_day(frame, constraint) ==
    IF GroupByRaises(frame, {"hearing_date"})
    THEN [exception |-> "KeyError", violations |-> <<>>]
    ELSE LET rows == frame.rows
             Count(d) == Cardinality({i \in DOMAIN rows : rows[i].hearing_date = d})
             daily_counts ==
                 SortedDates({rows[i].hearing_date : i \in DOMAIN rows})
             Over(d) == Count(d) > constraint.value
             Violation(d) ==
                 [type |-> constraint.type, hearing_date |-> d, judge_id |-> 0,
                  count |-> Count(d), limit |-> constraint.value]
             flagged == SelectSeq(daily_counts, Over)
         IN  [exception |-> "none",
              violations |-> [i \in DOMAIN flagged |-> Violation(flagged[i])]]

\* The per-judge check with >= where line 318 has >: a judge exactly at the
\* limit is flagged.
PerJudgeAtLimitFlagged(frame, constraint) ==
    IF GroupByRaises(frame, {"judge_id", "hearing_date"})
    THEN [exception |-> "KeyError", violations |-> <<>>]
    ELSE LET rows == frame.rows
             KeyOf(i) == <<rows[i].judge_id, rows[i].hearing_date>>
             Count(k) == Cardinality({i \in DOMAIN rows : KeyOf(i) = k})
             judge_daily_counts ==
                 SortedKeys({KeyOf(i) : i \in DOMAIN rows})
             Over(k) == Count(k) >= constraint.value
             Violation(k) ==
                 [type |-> constraint.type, hearing_date |-> k[2], judge_id |-> k[1],
                  count |-> Count(k), limit |-> constraint.value]
             flagged == SelectSeq(judge_daily_counts, Over)
         IN  [exception |-> "none",
              violations |-> [i \in DOMAIN flagged |-> Violation(flagged[i])]]

\* Lines 305-323.
validate_max_hearings_per_judge(frame, constraint) ==
    IF GroupByRaises(frame, {"judge_id", "hearing_date"})
    THEN [exception |-> "KeyError", violations |-> <<>>]
    ELSE LET rows == frame.rows
             KeyOf(i) == <<rows[i].judge_id, rows[i].hearing_date>>
             Count(k) == Cardinality({i \in DOMAIN rows : KeyOf(i) = k})
             judge_daily_counts ==
                 SortedKeys({KeyOf(i) : i \in DOMAIN rows})
             Over(k) == Count(k) > constraint.value
             Violation(k) ==
                 [type |-> constraint.type, hearing_date |-> k[2], judge_id |-> k[1],
                  count |-> Count(k), limit |-> constraint.value]
             flagged == SelectSeq(judge_daily_counts, Over)
         IN  [exception |-> "none",
              violations |-> [i \in DOMAIN flagged |-> Violation(flagged[i])]]

\* The rows a per-row check flags, in frame order, each named by its case.
RowViolations(flagged, type) ==
    [i \in DOMAIN flagged |->
        [type |-> type, case_id |-> flagged[i].case_id,
         hearing_date |-> flagged[i].hearing_date,
         priority_score |-> flagged[i].priority_score]]

\* The deadline check with >= where line 344 has >: the deadline day itself
\* is flagged.
DeadlineInclusive(frame, constraint) ==
    IF "priority_score" \notin frame.columns
    THEN [exception |-> "none", violations |-> <<>>]
    ELSE LET deadline == today + constraint.max_days
             Late(row) == /\ row.priority_score >= constraint.priority_threshold
                          /\ row.hearing_date >= deadline
         IN  [exception |-> "none",
              violations |-> RowViolations(SelectSeq(frame.rows, Late), constraint.type)]

\* Lines 325-350.
validate_priority_deadline(frame, constraint) ==
    IF "priority_score" \notin frame.columns
    THEN [exception |-> "none", violations |-> <<>>]
    ELSE LET deadline == today + constraint.max_days
             Late(row) == /\ row.priority_score >= constraint.priority_threshold
                          /\ row.hearing_date > deadline
         IN  [exception |-> "none",
              violations |-> RowViolations(SelectSeq(frame.rows, Late), constraint.type)]

\* The weekend check that takes only Sunday for the weekend.
NoWeekendsSundayOnly(frame) ==
    LET OnWeekend(row) == Weekday(row.hearing_date) > Saturday
    IN  [exception |-> "none",
         violations |-> RowViolations(SelectSeq(frame.rows, OnWeekend), "no_weekends")]

\* Lines 352-362.
validate_no_weekends(frame) ==
    LET OnWeekend(row) == Weekday(row.hearing_date) >= Saturday
    IN  [exception |-> "none",
         violations |-> RowViolations(SelectSeq(frame.rows, OnWeekend), "no_weekends")]

\* Lines 364-379.
validate_holiday_exclusion(frame, constraint) ==
    LET OnHoliday(row) == row.hearing_date \in constraint.holidays
    IN  [exception |-> "none",
         violations |-> RowViolations(SelectSeq(frame.rows, OnHoliday), constraint.type)]

\* A loop over the constraints that enforces a working-hours rule: its
\* max_hearings_derived is checked as a limit per judge and day.
ValidateConstraintEnforcingHours(frame, constraint) ==
    IF constraint.type = "max_hearings_per_day"
    THEN validate_max_hearings_per_day(frame, constraint)
    ELSE IF constraint.type = "max_hearings_per_judge"
    THEN validate_max_hearings_per_judge(frame, constraint)
    ELSE IF constraint.type = "priority_deadline"
    THEN validate_priority_deadline(frame, constraint)
    ELSE IF constraint.type = "no_weekends"
    THEN validate_no_weekends(frame)
    ELSE IF constraint.type = "holiday_exclusion"
    THEN validate_holiday_exclusion(frame, constraint)
    ELSE IF constraint.type = "working_hours_limit"
    THEN validate_max_hearings_per_judge(frame,
            [type |-> constraint.type, value |-> constraint.max_hearings_derived])
    ELSE [exception |-> "none", violations |-> <<>>]

\* Lines 247-273, one pass of the loop over the constraints: a rule of any
\* other type matches no branch and adds nothing.
ValidateConstraint(frame, constraint) ==
    IF constraint.type = "max_hearings_per_day"
    THEN validate_max_hearings_per_day(frame, constraint)
    ELSE IF constraint.type = "max_hearings_per_judge"
    THEN validate_max_hearings_per_judge(frame, constraint)
    ELSE IF constraint.type = "priority_deadline"
    THEN validate_priority_deadline(frame, constraint)
    ELSE IF constraint.type = "no_weekends"
    THEN validate_no_weekends(frame)
    ELSE IF constraint.type = "holiday_exclusion"
    THEN validate_holiday_exclusion(frame, constraint)
    ELSE [exception |-> "none", violations |-> <<>>]

\* Lines 245-273: the violations of cs[i..], appended to violations; an
\* exception raised by a rule's check ends the call.
RECURSIVE ValidateFrom(_, _, _, _)
ValidateFrom(frame, cs, i, violations) ==
    IF i > Len(cs) THEN [exception |-> "none", violations |-> violations]
    ELSE LET one == ValidateConstraint(frame, cs[i])
         IN  IF one.exception # "none" THEN one
             ELSE ValidateFrom(frame, cs, i + 1, violations \o one.violations)

\* The verdict taken from the first rule alone.
ValidateFirstRuleVerdict(frame, cs) ==
    LET all == ValidateFrom(frame, cs, 1, <<>>)
        first == ValidateFrom(frame, IF cs = <<>> THEN cs ELSE <<cs[1]>>, 1, <<>>)
    IN  [pc |-> "done", exception |-> all.exception,
         is_valid |-> (all.exception = "none" /\ Len(first.violations) = 0),
         violations |-> all.violations]

\* Lines 229-284: (is_valid, violations), or the exception that ended it.
validate_schedule(frame, cs) ==
    LET all == ValidateFrom(frame, cs, 1, <<>>)
    IN  [pc |-> "done", exception |-> all.exception,
         is_valid |-> (all.exception = "none" /\ Len(all.violations) = 0),
         violations |-> all.violations]

\* The schedule the scheduling call returned.
Produced == IF opt.pc = "done" THEN opt.result ELSE run[1].result

HasProduced ==
    \/ opt.pc = "done"
    \/ opt.pc = "idle" /\ run[1].pc = "done"

\* The caller checks the schedule it got against the limits it was built
\* with: builder.add_max_hearings_per_day(..).add_max_hearings_per_judge(..)
\* and then builder.validate_schedule(schedule_df, judges_df).
ValidateProduced ==
    /\ HasProduced
    /\ val.pc = "idle"
    /\ constraints' =
          add_max_hearings_per_judge(
              add_max_hearings_per_day(constraints, max_hearings_per_day),
              max_hearings_per_judge)
    /\ val' = validate_schedule(Produced, constraints')
    /\ UNCHANGED <<inputs, run, opt, add_exception, eff, chk>>

\* A caller of the builder: one add_* call at a time, while the list and
\* the work of validating it stay within the bounds.
CanAdd ==
    /\ val.pc = "idle"
    /\ Len(constraints) < MaxRules
    /\ (Len(constraints) + 1) * Len(schedule_df.rows) <= MaxChecks

AddFrame == <<inputs, run, opt, val, add_exception, eff, chk>>

AddMaxHearingsPerDay ==
    /\ CanAdd
    /\ \E max_hearings \in 1..MaxLimit :
          constraints' = add_max_hearings_per_day(constraints, max_hearings)
    /\ UNCHANGED AddFrame

AddMaxHearingsPerJudge ==
    /\ CanAdd
    /\ \E max_hearings \in 1..MaxLimit :
          constraints' = add_max_hearings_per_judge(constraints, max_hearings)
    /\ UNCHANGED AddFrame

AddPriorityDeadline ==
    /\ CanAdd
    /\ \E priority_threshold \in 1..MaxPriority, max_days \in 0..MaxDeadlineDays :
          constraints' = add_priority_deadline(constraints, priority_threshold, max_days)
    /\ UNCHANGED AddFrame

AddNoWeekendScheduling ==
    /\ CanAdd
    /\ constraints' = add_no_weekend_scheduling(constraints)
    /\ UNCHANGED AddFrame

\* The days around a weekend: a Friday, a Saturday and a Sunday.
FrameDates == (Saturday - 1)..(Saturday + 1)

AddHolidayExclusion ==
    /\ CanAdd
    /\ \E holidays \in SUBSET FrameDates :
          constraints' = add_holiday_exclusion(constraints, holidays)
    /\ UNCHANGED AddFrame

\* The case types a rule can name (models/data_models.py, CaseType).
CaseTypes == {"civil", "criminal"}

AddMinimumGapBetweenHearings ==
    /\ CanAdd
    /\ \E case_type \in CaseTypes, min_days \in 1..MaxDeadlineDays :
          constraints' = add_minimum_gap_between_hearings(constraints, case_type, min_days)
    /\ UNCHANGED AddFrame

AddJudgeSpecialization ==
    /\ CanAdd
    /\ \E judge_id \in 1..MaxJudges, case_type \in CaseTypes :
          constraints' = add_judge_specialization(constraints, judge_id, <<case_type>>)
    /\ UNCHANGED AddFrame

\* The default tolerance of add_balanced_workload, 0.2, in percent
\* (constraint_builder.py:201).
DefaultTolerance == 20

AddBalancedWorkload ==
    /\ CanAdd
    /\ constraints' = add_balanced_workload(constraints, DefaultTolerance)
    /\ UNCHANGED AddFrame

WorkingHours == 1..MaxHours

\* What a caller can pass for the average duration of a hearing: nothing
\* in the signatures keeps it above zero.
Durations == (-1)..MaxDuration

\* add_working_hours_limit(max_hours, avg_hearing_duration): line 130
\* divides before anything is appended, so a zero duration ends the call
\* with ZeroDivisionError and the list as it was.
AddWorkingHoursLimit ==
    /\ CanAdd
    /\ \E max_hours \in WorkingHours, avg_hearing_duration \in Durations :
          IF avg_hearing_duration = 0
          THEN /\ add_exception' = "ZeroDivisionError"
               /\ constraints' = constraints
          ELSE /\ add_exception' = "none"
               /\ constraints' =
                     add_working_hours_limit(constraints, max_hours, avg_hearing_duration)
    /\ UNCHANGED <<inputs, run, opt, val, eff, chk>>

\* The defaults of the constructor's signature (scheduler.py:39-42), the
\* 6.0 working hours and the 0.5 hours of a hearing in half hours.
DefaultMaxHearingsPerDay == 20
DefaultMaxHearingsPerJudge == 15
DefaultWorkingHoursPerDay == 12
DefaultAvgHearingDuration == 1

ConstructorArguments ==
    {"max_hearings_per_day", "max_hearings_per_judge",
     "working_hours_per_day", "avg_hearing_duration_hours"}

\* HearingScheduler(max_hearings_per_day=20, max_hearings_per_judge=15,
\* working_hours_per_day=6.0, avg_hearing_duration_hours=0.5)
\* (scheduler.py:37-61): each argument is the caller's or, left out, its
\* default, and the four are stored as they are (lines 53-56).  passed
\* keeps which ones the caller gave.
HearingSchedulerInit ==
    /\ scheduler.pc = "new"
    /\ \E passed \in SUBSET ConstructorArguments,
          per_day \in 1..MaxLimit, per_judge \in 1..MaxLimit,
          working_hours_per_day \in WorkingHours,
          avg_hearing_duration_hours \in Durations :
          /\ max_hearings_per_day' =
                IF "max_hearings_per_day" \in passed
                THEN per_day ELSE DefaultMaxHearingsPerDay
          /\ max_hearings_per_judge' =
                IF "max_hearings_per_judge" \in passed
                THEN per_judge ELSE DefaultMaxHearingsPerJudge
          /\ scheduler' = [pc |-> "constructed",
                           passed |-> passed,
                           working_hours_per_day |->
                              IF "working_hours_per_day" \in passed
                              THEN working_hours_per_day
                              ELSE DefaultWorkingHoursPerDay,
                           avg_hearing_duration |->
                              IF "avg_hearing_duration_hours" \in passed
                              THEN avg_hearing_duration_hours
                              ELSE DefaultAvgHearingDuration]
    /\ UNCHANGED <<cases_df, judges_df, start_date, num_days, raised,
                   schedule_df, today, run, opt, constraints, val,
                   add_exception, eff, chk>>

\* A validation that uses the rule list up.
ValidateCallDraining ==
    /\ val.pc = "idle"
    /\ val' = validate_schedule(schedule_df, constraints)
    /\ constraints' = <<>>
    /\ UNCHANGED <<inputs, run, opt, add_exception, eff, chk>>

\* builder.validate_schedule(schedule_df, judges_df): the builder's list
\* and the frame are read, (is_valid, violations) is built and returned.
ValidateCall ==
    /\ val.pc = "idle"
    /\ val' = validate_schedule(schedule_df, constraints)
    /\ UNCHANGED <<inputs, run, opt, constraints, add_exception, eff, chk>>

\* The caller is done with the result; the builder can be used again.
ValidateReturn ==
    /\ val.pc = "done"
    /\ val' = IdleVal
    /\ UNCHANGED <<inputs, run, opt, constraints, add_exception, eff, chk>>

-----------------------------------------------------------------------------
\* Inputs

\* A scheduler constructed with its two limits given and the working
\* hours and the hearing duration left at their defaults
\* (scheduler.py:37-61).
DefaultScheduler ==
    [pc |-> "constructed",
     passed |-> {"max_hearings_per_day", "max_hearings_per_judge"},
     working_hours_per_day |-> DefaultWorkingHoursPerDay,
     avg_hearing_duration |-> DefaultAvgHearingDuration]

NoScheduler ==
    [pc |-> "new", passed |-> {},
     working_hours_per_day |-> 0, avg_hearing_duration |-> 0]

Priorities == 1..MaxPriority

CaseFrames ==
    UNION {[1..n -> Priorities] : n \in 0..MaxCases}

JudgeFrames == {[j \in 1..n |-> j] : n \in 0..MaxJudges}

NotRaised == [k |-> 0, p |-> 0]

InitInputs ==
    /\ max_hearings_per_day \in 1..MaxLimit
    /\ max_hearings_per_judge \in 1..MaxLimit
    /\ \E ps \in CaseFrames :
          cases_df = [c \in DOMAIN ps |-> [case_id |-> c, priority_score |-> ps[c]]]
    /\ judges_df \in JudgeFrames
    /\ start_date \in 0..6
    /\ num_days \in 0..MaxDays
    /\ run = [r \in Runs |-> IdleRun]
    /\ opt = IdleOpt
    /\ constraints = <<>>
    /\ val = IdleVal
    /\ scheduler = DefaultScheduler
    /\ schedule_df = DataFrame(<<>>)
    /\ today = start_date
    /\ add_exception = "none"
    /\ eff = IdleEff
    /\ chk = IdleChk

\* One scheduling call, then the validation of what it returned.
Init ==
    /\ InitInputs
    /\ raised = NotRaised

Next ==
    \/ HeuristicBegin(1)
    \/ HeuristicCase(1)
    \/ HeuristicReturn(1)
    \/ OptimizedCall
    \/ ValidateProduced

Spec == Init /\ [][Next]_vars

\* Two calls of schedule_hearings_heuristic on one HearingScheduler: on the
\* same inputs, or with one case's priority_score raised in the second.
Raises ==
    {NotRaised} \cup
    {[k |-> k, p |-> p] : k \in DOMAIN cases_df, p \in Priorities}

InitPair ==
    /\ InitInputs
    /\ Len(cases_df) <= MaxPairCases
    /\ raised \in {x \in Raises : x.k # 0 => x.p > cases_df[x.k].priority_score}

NextPair == \E r \in Runs : HeuristicCall(r)

SpecPair == InitPair /\ [][NextPair]_vars

\* Two calls of schedule_hearings_heuristic on one HearingScheduler and the
\* same inputs, from two threads: the passes of their loops interleave in
\* any order.
InitInterleaved ==
    /\ InitInputs
    /\ Len(cases_df) <= MaxPairCases
    /\ raised = NotRaised

NextInterleaved ==
    \E r \in Runs :
        \/ HeuristicBegin(r)
        \/ HeuristicCase(r)
        \/ HeuristicReturn(r)

SpecInterleaved == InitInterleaved /\ [][NextInterleaved]_vars

\* One call of schedule_hearings_optimized on a frame of a size the solver
\* model is enumerated for.
InitSolver ==
    /\ InitInputs
    /\ Len(cases_df) <= MaxSolverCases
    /\ raised = NotRaised

NextSolver == OptimizedCall

SpecSolver == InitSolver /\ [][NextSolver]_vars

\* One call of the heuristic and the measuring of what it returned.
InitEff ==
    /\ InitInputs
    /\ raised = NotRaised

NextEff ==
    \/ HeuristicCall(1)
    \/ EfficiencyCall

SpecEff == InitEff /\ [][NextEff]_vars

\* A caller with a frame of its own builds a rule list and validates the
\* frame against it.  The frame is any frame with the schedule's columns,
\* the frame without columns included.
FrameRows ==
    [case_id : {0}, judge_id : 1..MaxJudges, hearing_date : FrameDates,
     priority_score : Priorities]

Frames ==
    {[columns |-> ScheduleColumns, rows |-> <<>>]} \cup
    {DataFrame([i \in DOMAIN rows |-> [rows[i] EXCEPT !.case_id = i]]) :
        rows \in UNION {[1..n -> FrameRows] : n \in 0..MaxRows}}

NoScheduling ==
    /\ max_hearings_per_day = 0
    /\ max_hearings_per_judge = 0
    /\ cases_df = <<>>
    /\ judges_df = <<>>
    /\ start_date = 0
    /\ num_days = 0
    /\ raised = NotRaised
    /\ run = [r \in Runs |-> IdleRun]
    /\ opt = IdleOpt
    /\ eff = IdleEff
    /\ chk = IdleChk

InitVal ==
    /\ NoScheduling
    /\ scheduler = NoScheduler
    /\ schedule_df \in Frames
    /\ today = Saturday - 1
    /\ constraints = <<>>
    /\ val = IdleVal
    /\ add_exception = "none"

NextVal ==
    \/ AddMaxHearingsPerDay
    \/ AddMaxHearingsPerJudge
    \/ AddPriorityDeadline
    \/ AddNoWeekendScheduling
    \/ AddHolidayExclusion
    \/ ValidateCall
    \/ ValidateReturn

SpecVal == InitVal /\ [][NextVal]_vars

\* A caller with a frame of its own builds a list of rules the validator
\* has no check for, mixed with rules of two kinds it checks, and validates
\* the frame against it.
NextInert ==
    \/ AddMinimumGapBetweenHearings
    \/ AddWorkingHoursLimit
    \/ AddJudgeSpecialization
    \/ AddBalancedWorkload
    \/ AddMaxHearingsPerDay
    \/ AddNoWeekendScheduling
    \/ ValidateCall
    \/ ValidateReturn

SpecInert == InitVal /\ [][NextInert]_vars

\* A caller with a frame of its own has its structure checked, on a day
\* that is before, among or after the frame's dates.
InitCheck ==
    /\ NoScheduling
    /\ scheduler = NoScheduler
    /\ schedule_df \in Frames
    /\ today \in FrameDates
    /\ constraints = <<>>
    /\ val = IdleVal
    /\ add_exception = "none"

NextCheck ==
    \/ StructureCall
    \/ StructureReturn

SpecCheck == InitCheck /\ [][NextCheck]_vars

\* The configuration: a scheduler is constructed, and a builder is given
\* working-hours rules.
InitConfig ==
    /\ NoScheduling
    /\ scheduler = NoScheduler
    /\ schedule_df = DataFrame(<<>>)
    /\ today = 0
    /\ constraints = <<>>
    /\ val = IdleVal
    /\ add_exception = "none"

NextConfig ==
    \/ HearingSchedulerInit
    \/ AddWorkingHoursLimit

SpecConfig == InitConfig /\ [][NextConfig]_vars

-----------------------------------------------------------------------------
\* Properties

\* No (judge_id, hearing_date) pair has more than max_hearings_per_judge
\* rows and no hearing_date more than max_hearings_per_day.
CapacityOk(rows) ==
    \A i \in DOMAIN rows :
        /\ Cardinality({k \in DOMAIN rows :
                /\ rows[k].judge_id = rows[i].judge_id
                /\ rows[k].hearing_date = rows[i].hearing_date})
              <= max_hearings_per_judge
        /\ Cardinality({k \in DOMAIN rows :
                rows[k].hearing_date = rows[i].hearing_date})
              <= max_hearings_per_day

RowsOf(rows, case_id) == {i \in DOMAIN rows : rows[i].case_id = case_id}

SolverStatuses == {"OPTIMAL", "FEASIBLE"}

\* C1: the capacity limits hold in the schedule of a heuristic run at every
\* step and in what it returns, and in what schedule_hearings_optimized
\* returns on the solver path and on the fallback; with
\* max_hearings_per_day = 1 no two rows share a hearing_date.
C1_CapacityLimits ==
    /\ \A r \in Runs :
          /\ CapacityOk(run[r].schedule)
          /\ CapacityOk(run[r].result.rows)
    /\ CapacityOk(opt.result.rows)
    /\ max_hearings_per_day = 1 =>
          \A i, k \in DOMAIN Produced.rows :
              i # k => Produced.rows[i].hearing_date # Produced.rows[k].hearing_date

\* Scenario 2: a daily cap of 1, two judges, two cases of equal priority,
\* heard on two different days.
C1_Witness ==
    /\ run[1].pc = "done"
    /\ max_hearings_per_day = 1
    /\ Len(judges_df) = 2
    /\ Len(cases_df) = 2
    /\ cases_df[1].priority_score = cases_df[2].priority_score
    /\ Len(run[1].result.rows) = 2
    /\ run[1].result.rows[1].hearing_date # run[1].result.rows[2].hearing_date

\* C2: each case_id is in at most one row of the schedule of a heuristic
\* run and of what schedule_hearings_optimized returns.
C2_CaseAtMostOnce ==
    \A c \in DOMAIN cases_df :
        /\ \A r \in Runs :
              /\ Cardinality(RowsOf(run[r].schedule, cases_df[c].case_id)) <= 1
              /\ Cardinality(RowsOf(run[r].result.rows, cases_df[c].case_id)) <= 1
        /\ Cardinality(RowsOf(opt.result.rows, cases_df[c].case_id)) <= 1

C2_Witness ==
    /\ opt.pc = "done"
    /\ opt.status = "OPTIMAL"
    /\ Len(opt.result.rows) = 2
    /\ max_hearings_per_day > 1
    /\ num_days > 1

\* A day on which, by the run's counters, the court and some judge are
\* both below their limits.
FreeSlot(st, d) ==
    /\ st.daily_hearings[d] < max_hearings_per_day
    /\ \E j \in Range(judges_df) :
          st.judge_daily_hearings[<<j, d>>] < max_hearings_per_judge

Processed(st) == {st.cases[i].case_id : i \in 1..(st.idx - 1)}

\* C3 as stated: a case is left out of the heuristic's schedule only when
\* no day of the horizon has a free slot.
C3_AbsentOnlyIfNoDay ==
    (run[1].pc # "idle" /\ run[1].unscheduled # {}) =>
        \A d \in HorizonDates : ~FreeSlot(run[1], d)

\* C3 amended: every case processed is in exactly one row or is left out,
\* and a case is left out only when no day of the horizon that is not a
\* Saturday or Sunday has a free slot.
C3_AbsentOnlyIfNoWeekday ==
    run[1].pc # "idle" =>
        /\ \A id \in Processed(run[1]) :
              IF id \in run[1].unscheduled
              THEN RowsOf(run[1].schedule, id) = {}
              ELSE Cardinality(RowsOf(run[1].schedule, id)) = 1
        /\ run[1].unscheduled # {} =>
              \A d \in HorizonDates : ~IsWeekend(d) => ~FreeSlot(run[1], d)

\* A case left out while another was scheduled and a weekend day of the
\* horizon stayed free.
C3_Witness ==
    /\ run[1].pc = "done"
    /\ run[1].unscheduled # {}
    /\ run[1].schedule # <<>>
    /\ \E d \in HorizonDates : IsWeekend(d) /\ FreeSlot(run[1], d)

\* C4: when the solver is unavailable or ends with a status other than
\* OPTIMAL or FEASIBLE, schedule_hearings_optimized returns the frame
\* schedule_hearings_heuristic returns for the same inputs.
C4_FallbackIsHeuristic ==
    (opt.pc = "done" /\ opt.status \notin SolverStatuses) =>
        \E s \in sort_values(cases_df) :
            opt.result = DataFrame(RunLoop(FreshRun(1, s)).schedule)

C4_Witness ==
    /\ opt.pc = "done"
    /\ opt.status = "UNKNOWN"
    /\ Len(opt.result.rows) = 2

\* C5: no row of a solver-found schedule is on a Saturday or Sunday.
C5_SolverSkipsWeekends ==
    (opt.pc = "done" /\ opt.status \in SolverStatuses) =>
        \A i \in DOMAIN opt.result.rows : ~IsWeekend(opt.result.rows[i].hearing_date)

\* C6: no row of the heuristic's schedule is on a Saturday or Sunday and
\* every hearing_date is in start_date .. start_date + num_days - 1.
C6_HeuristicSkipsWeekends ==
    \A r \in Runs : \A i \in DOMAIN run[r].schedule :
        /\ Weekday(run[r].schedule[i].hearing_date) \in 0..4
        /\ run[r].schedule[i].hearing_date \in HorizonDates

\* A run starting on a weekend day that scheduled a case.
C6_Witness ==
    /\ run[1].pc = "done"
    /\ Weekday(start_date) \in {5, 6}
    /\ run[1].schedule # <<>>

DayIndex(rows, case_id) ==
    rows[CHOOSE i \in RowsOf(rows, case_id) : TRUE].hearing_date - start_date

\* C8: when the second run differs from the first only in one case's
\* priority_score being raised, that case, if the first run scheduled it, is
\* scheduled by the second run on a day index that is not later.
C8_Monotone ==
    (raised # NotRaised /\ run[1].pc = "done" /\ run[2].pc = "done") =>
        LET id == cases_df[raised.k].case_id
        IN  RowsOf(run[1].schedule, id) # {} =>
                /\ RowsOf(run[2].schedule, id) # {}
                /\ DayIndex(run[2].schedule, id) <= DayIndex(run[1].schedule, id)

\* The raised case is heard a day earlier than before.
C8_Witness ==
    /\ raised # NotRaised
    /\ run[1].pc = "done"
    /\ run[2].pc = "done"
    /\ RowsOf(run[1].schedule, cases_df[raised.k].case_id) # {}
    /\ RowsOf(run[2].schedule, cases_df[raised.k].case_id) # {}
    /\ DayIndex(run[2].schedule, cases_df[raised.k].case_id)
          < DayIndex(run[1].schedule, cases_df[raised.k].case_id)

\* C9: a schedule built by the heuristic, validated against
\* max_hearings_per_day and max_hearings_per_judge rules with the limits it
\* was built with, is found valid.
C9_ValidatorSound ==
    (val.pc = "done" /\ opt.status \notin SolverStatuses) => val.is_valid

\* C10: validate_schedule returns (is_valid, violations) and never ends in
\* an exception.
C10_ValidateNeverRaises ==
    val.pc = "done" => val.exception = "none"

\* The rules of the builder's list of one type, and the violations a
\* returned validation lists of one type.
RulesOf(type) == {i \in DOMAIN constraints : constraints[i].type = type}

ViolationsOf(type) == {k \in DOMAIN val.violations : val.violations[k].type = type}

Returned == val.pc = "done" /\ val.exception = "none"

\* C11: a step that is a call of validate_schedule leaves the rows and
\* columns of the frame and the builder's rule list, content and order, as
\* they were.
C11_ValidatePure ==
    [][(val.pc = "idle" /\ val'.pc = "done") =>
            (schedule_df' = schedule_df /\ constraints' = constraints)]_vars

\* A frame of two rows validated against two rules of different types.
C11_Witness ==
    /\ val.pc = "done"
    /\ Len(schedule_df.rows) = 2
    /\ Len(constraints) = 2
    /\ constraints[1].type # constraints[2].type
    /\ val.violations # <<>>

\* C12: when validate_schedule returns, is_valid is true exactly when the
\* violation list is empty.
C12_ValidIffNoViolations ==
    Returned => (val.is_valid <=> val.violations = <<>>)

\* The first rule is satisfied and the second is violated.
C12_Witness ==
    /\ Returned
    /\ Len(constraints) = 2
    /\ ValidateFrom(schedule_df, SubSeq(constraints, 1, 1), 1, <<>>).violations = <<>>
    /\ val.violations # <<>>
    /\ ~val.is_valid

\* C13: with one priority_deadline rule in the list, each row whose
\* priority_score is at least the threshold and whose hearing_date is after
\* today + max_days is named by exactly one priority_deadline violation, and
\* every other row by none.
C13_PriorityDeadline ==
    (Returned /\ Cardinality(RulesOf("priority_deadline")) = 1) =>
        LET rule == constraints[CHOOSE i \in RulesOf("priority_deadline") : TRUE]
            rows == schedule_df.rows
            Late(i) == /\ rows[i].priority_score >= rule.priority_threshold
                       /\ rows[i].hearing_date > today + rule.max_days
            Naming(i) == {k \in ViolationsOf("priority_deadline") :
                             val.violations[k].case_id = rows[i].case_id}
        IN  \A i \in DOMAIN rows :
                Cardinality(Naming(i)) = IF Late(i) THEN 1 ELSE 0

\* Two rows at the threshold, one a day after the deadline and one on it:
\* one violation, naming the first.
C13_Witness ==
    /\ Returned
    /\ Len(constraints) = 1
    /\ constraints[1].type = "priority_deadline"
    /\ Len(schedule_df.rows) = 2
    /\ schedule_df.rows[1].priority_score = constraints[1].priority_threshold
    /\ schedule_df.rows[2].priority_score = constraints[1].priority_threshold
    /\ schedule_df.rows[1].hearing_date = today + constraints[1].max_days + 1
    /\ schedule_df.rows[2].hearing_date = today + constraints[1].max_days
    /\ Len(val.violations) = 1
    /\ val.violations[1].case_id = schedule_df.rows[1].case_id

DateCount(d) ==
    Cardinality({i \in DOMAIN schedule_df.rows : schedule_df.rows[i].hearing_date = d})

PairCount(p) ==
    Cardinality({i \in DOMAIN schedule_df.rows :
        <<schedule_df.rows[i].judge_id, schedule_df.rows[i].hearing_date>> = p})

\* C14: with one max_hearings_per_day rule in the list, a date has exactly
\* one violation, carrying its row count, when that count is above the
\* limit, and none otherwise; with one max_hearings_per_judge rule the same
\* holds of each (judge_id, hearing_date) pair.
C14_MaxHearings ==
    Returned =>
        LET v == val.violations
        IN  /\ Cardinality(RulesOf("max_hearings_per_day")) = 1 =>
                 LET limit == constraints[CHOOSE i \in RulesOf("max_hearings_per_day") : TRUE].value
                 IN  \A d \in FrameDates :
                        LET about == {k \in ViolationsOf("max_hearings_per_day") :
                                         v[k].hearing_date = d}
                        IN  /\ Cardinality(about) =
                                  IF DateCount(d) > limit THEN 1 ELSE 0
                            /\ \A k \in about : v[k].count = DateCount(d)
            /\ Cardinality(RulesOf("max_hearings_per_judge")) = 1 =>
                 LET limit == constraints[CHOOSE i \in RulesOf("max_hearings_per_judge") : TRUE].value
                 IN  \A p \in (1..MaxJudges) \X FrameDates :
                        LET about == {k \in ViolationsOf("max_hearings_per_judge") :
                                         <<v[k].judge_id, v[k].hearing_date>> = p}
                        IN  /\ Cardinality(about) =
                                  IF PairCount(p) > limit THEN 1 ELSE 0
                            /\ \A k \in about : v[k].count = PairCount(p)

\* Two judges on one day under a daily limit of 1 and a per-judge limit of
\* 1: the day is flagged with count 2, no judge is.
C14_Witness ==
    /\ Returned
    /\ constraints = <<[type |-> "max_hearings_per_day", value |-> 1],
                       [type |-> "max_hearings_per_judge", value |-> 1]>>
    /\ Len(schedule_df.rows) = 2
    /\ schedule_df.rows[1].hearing_date = schedule_df.rows[2].hearing_date
    /\ schedule_df.rows[1].judge_id # schedule_df.rows[2].judge_id
    /\ Len(val.violations) = 1
    /\ val.violations[1].count = 2

\* C15: with one no_weekends rule in the list, each row on a Saturday or
\* Sunday is named by exactly one no_weekends violation and each other row
\* by none; with one holiday_exclusion rule, each row whose hearing_date is
\* among the holidays is named by exactly one holiday_exclusion violation
\* and each other row by none.
C15_WeekendsAndHolidays ==
    Returned =>
        LET rows == schedule_df.rows
            Naming(type, i) == {k \in ViolationsOf(type) :
                                   val.violations[k].case_id = rows[i].case_id}
        IN  /\ Cardinality(RulesOf("no_weekends")) = 1 =>
                 \A i \in DOMAIN rows :
                    Cardinality(Naming("no_weekends", i)) =
                        IF Weekday(rows[i].hearing_date) \in {5, 6} THEN 1 ELSE 0
            /\ Cardinality(RulesOf("holiday_exclusion")) = 1 =>
                 LET rule == constraints[CHOOSE i \in RulesOf("holiday_exclusion") : TRUE]
                 IN  \A i \in DOMAIN rows :
                        Cardinality(Naming("holiday_exclusion", i)) =
                            IF rows[i].hearing_date \in rule.holidays THEN 1 ELSE 0

\* A Saturday row and a Friday row, the Friday a holiday: one violation of
\* each rule.
C15_Witness ==
    /\ Returned
    /\ Len(constraints) = 2
    /\ constraints[1].type = "no_weekends"
    /\ constraints[2].type = "holiday_exclusion"
    /\ Len(schedule_df.rows) = 2
    /\ Weekday(schedule_df.rows[1].hearing_date) = Saturday
    /\ Weekday(schedule_df.rows[2].hearing_date) = Saturday - 1
    /\ constraints[2].holidays = {schedule_df.rows[2].hearing_date}
    /\ Len(val.violations) = 2

\* C16: with no cases the heuristic returns a frame without rows, and
\* calculate_efficiency on that frame returns its metrics, coverage_rate 0
\* among them, and raises nothing.
C16_EmptyInputsTolerated ==
    /\ (run[1].pc = "done" /\ cases_df = <<>>) => run[1].result.rows = <<>>
    /\ (eff.pc = "done" /\ cases_df = <<>>) =>
          /\ eff.exception = "none"
          /\ eff.metrics.coverage_rate = 0

CaseIds == {cases_df[c].case_id : c \in DOMAIN cases_df}

C19_EmptyJudgesFailFast ==
    (judges_df = <<>> /\ cases_df # <<>>) => opt.pc # "done"

\* C20: no scheduler is constructed with an average hearing duration of
\* zero or less, and no working-hours rule is derived from one.
C20_NonPositiveDurationRejected ==
    /\ scheduler.pc = "constructed" => scheduler.avg_hearing_duration > 0
    /\ \A i \in DOMAIN constraints :
          constraints[i].type = "working_hours_limit" =>
              constraints[i].avg_duration > 0

\* C21: a scheduler constructed without a per-judge limit of the caller's
\* has the limit the working hours give, the working hours divided by the
\* duration of a hearing and rounded down (12 with the defaults), and the
\* court-wide daily limit of a scheduler is never below its per-judge limit.
C21_PerJudgeLimitDerived ==
    (scheduler.pc = "constructed" /\ scheduler.avg_hearing_duration > 0) =>
        /\ "max_hearings_per_judge" \notin scheduler.passed =>
              max_hearings_per_judge =
                  scheduler.working_hours_per_day \div scheduler.avg_hearing_duration
        /\ max_hearings_per_day >= max_hearings_per_judge

\* The sum over the rows from row i on of priority_score x (num_days -
\* day index), in steps of 1/PriorityScale and with nothing cut off.
RECURSIVE WeightedFrom(_, _)
WeightedFrom(rows, i) ==
    IF i > Len(rows) THEN 0
    ELSE rows[i].priority_score * (num_days - (rows[i].hearing_date - start_date))
            + WeightedFrom(rows, i + 1)

Weighted(rows) == WeightedFrom(rows, 1)

\* C22: when the solver reports OPTIMAL, no assignment that places every
\* case exactly once within both capacity limits has a larger sum of
\* priority_score x (num_days - day index) than the returned schedule.
C22_OptimalAttainsMaximum ==
    (opt.pc = "done" /\ opt.status = "OPTIMAL") =>
        \A a \in Feasible :
            Weighted(ExtractSchedule(a)) <= Weighted(opt.result.rows)

\* C23: a schedule the solver produced (OPTIMAL or FEASIBLE) has one row
\* for every input case and no other row, each with a judge of the judge
\* list and a hearing_date of the horizon.
C23_SolverScheduleComplete ==
    (opt.pc = "done" /\ opt.status \in SolverStatuses) =>
        /\ Len(opt.result.rows) = Len(cases_df)
        /\ \A c \in DOMAIN cases_df :
              Cardinality(RowsOf(opt.result.rows, cases_df[c].case_id)) = 1
        /\ \A i \in DOMAIN opt.result.rows :
              /\ opt.result.rows[i].judge_id \in Range(judges_df)
              /\ opt.result.rows[i].hearing_date \in HorizonDates

\* A FEASIBLE solution that is not the best one: two cases of different
\* priority, the lower one heard on the first day and the higher one on the
\* second.
C23_Witness ==
    /\ opt.pc = "done"
    /\ opt.status = "FEASIBLE"
    /\ Len(cases_df) = 2
    /\ Len(opt.result.rows) = 2
    /\ \E i, k \in DOMAIN opt.result.rows :
          /\ opt.result.rows[i].priority_score < opt.result.rows[k].priority_score
          /\ opt.result.rows[i].hearing_date < opt.result.rows[k].hearing_date

\* C24: the structure check of a schedule without rows passes, with no
\* issue reported.
C24_EmptyScheduleValid ==
    (chk.pc = "done" /\ schedule_df.rows = <<>>) =>
        /\ chk.is_valid
        /\ chk.issues = <<>>

\* C25: the heuristic's sort is stable: among cases of equal
\* priority_score the order of processing is the order of the input frame
\* (the case ids of the model are the positions in the input frame).
C25_SortStable ==
    run[1].pc # "idle" =>
        \A i, k \in DOMAIN run[1].cases :
            (/\ i < k
             /\ run[1].cases[i].priority_score = run[1].cases[k].priority_score)
                => run[1].cases[i].case_id < run[1].cases[k].case_id

\* The rows appended before row k, and their counts on a day and for a
\* judge on a day.
RowsBefore(rows, k) == [i \in 1..(k - 1) |-> rows[i]]

CountOn(rows, d) == Cardinality({i \in DOMAIN rows : rows[i].hearing_date = d})

CountFor(rows, judge_id, d) ==
    Cardinality({i \in DOMAIN rows :
        rows[i].judge_id = judge_id /\ rows[i].hearing_date = d})

Earliest(days) == CHOOSE d \in days : \A x \in days : d <= x

\* The days of the horizon with a court-wide count below the daily limit.
OpenDays(rows) == {d \in HorizonDates : CountOn(rows, d) < max_hearings_per_day}

\* The non-weekend days among them on which some judge is below the
\* per-judge limit.
SlotDays(rows) ==
    {d \in OpenDays(rows) :
        /\ ~IsWeekend(d)
        /\ \E j \in DOMAIN judges_df :
              CountFor(rows, judges_df[j], d) < max_hearings_per_judge}

\* The first judge of the frame below the per-judge limit on day d.
FirstFreeJudge(rows, d) ==
    LET free == {j \in DOMAIN judges_df :
                    CountFor(rows, judges_df[j], d) < max_hearings_per_judge}
    IN  IF free = {} THEN 0
        ELSE judges_df[CHOOSE j \in free : \A x \in free : j <= x]

\* C26 as stated: every row of a heuristic schedule is on the first day of
\* the horizon whose court-wide count was below max_hearings_per_day when
\* the case was processed, with the first judge of the frame below
\* max_hearings_per_judge on that day.
C26_FirstOpenDayTaken ==
    run[1].pc = "done" =>
        \A k \in DOMAIN run[1].schedule :
            LET before == RowsBefore(run[1].schedule, k)
                row == run[1].schedule[k]
            IN  /\ row.hearing_date = Earliest(OpenDays(before))
                /\ row.judge_id = FirstFreeJudge(before, row.hearing_date)

\* C26, amended: every row of a heuristic schedule is on the first
\* non-weekend day of the horizon that had, when the case was processed,
\* a court-wide count below max_hearings_per_day and some judge below
\* max_hearings_per_judge, with the first such judge of the frame; with one
\* judge, a per-judge limit of 2 and three cases on a horizon of two
\* weekdays, the first two cases processed are heard on the first day and
\* the third on the second.
C26_FirstSlotTaken ==
    run[1].pc = "done" =>
        /\ \A k \in DOMAIN run[1].schedule :
              LET before == RowsBefore(run[1].schedule, k)
                  row == run[1].schedule[k]
              IN  /\ SlotDays(before) # {}
                  /\ row.hearing_date = Earliest(SlotDays(before))
                  /\ row.judge_id = FirstFreeJudge(before, row.hearing_date)
        /\ (/\ Len(judges_df) = 1
            /\ max_hearings_per_judge = 2
            /\ max_hearings_per_day >= 2
            /\ Len(cases_df) = 3
            /\ num_days >= 2
            /\ ~IsWeekend(start_date)
            /\ ~IsWeekend(start_date + 1))
              => /\ Len(run[1].schedule) = 3
                 /\ \A k \in 1..3 :
                       /\ run[1].schedule[k].case_id = run[1].cases[k].case_id
                       /\ run[1].schedule[k].hearing_date =
                             IF k < 3 THEN start_date ELSE start_date + 1

\* Scenario 1: one judge with a per-judge limit of 2 and three cases, the
\* first of a higher priority than the last; two rows on the first day and
\* the third on the next.
C26_Witness ==
    /\ run[1].pc = "done"
    /\ Len(judges_df) = 1
    /\ max_hearings_per_judge = 2
    /\ Len(run[1].schedule) = 3
    /\ run[1].schedule[1].priority_score > run[1].schedule[3].priority_score
    /\ run[1].schedule[1].hearing_date = start_date
    /\ run[1].schedule[2].hearing_date = start_date
    /\ run[1].schedule[3].hearing_date = start_date + 1

\* A run in its loop or returned, and what it hands back when the rest of
\* its loop runs with nothing else in between.
Started(r) == run[r].pc \in {"loop", "done"}

Completed(r) == DataFrame(RunLoop(run[r]).schedule)

\* C27: two runs of the heuristic on one scheduler and the same inputs, in
\* sequence or with the passes of their loops interleaved, each return the
\* schedule the run returns alone, and so the same schedule; no step of a
\* run changes the scheduler's limits or fields or the caller's case and
\* judge frames.
C27_RunsIndependent ==
    /\ [](\A r \in Runs :
            /\ Started(r) => Completed(r) = HeuristicSchedule(r, run[r].cases)
            /\ run[r].pc = "done" => run[r].result = Completed(r))
    /\ []((run[1].pc = "done" /\ run[2].pc = "done") =>
            run[1].result = run[2].result)
    /\ [][UNCHANGED <<max_hearings_per_day, max_hearings_per_judge, scheduler,
                      cases_df, judges_df, start_date, num_days>>]_vars

\* Both runs in their loops at once, each with its first of two cases
\* scheduled on the same day with the same judge, under a per-judge limit
\* of 1.
C27_Witness ==
    /\ max_hearings_per_judge = 1
    /\ Len(cases_df) = 2
    /\ \A r \in Runs :
          /\ run[r].pc = "loop"
          /\ run[r].idx = 2
          /\ Len(run[r].schedule) = 1
    /\ run[1].schedule = run[2].schedule

\* Whether the i-th case of run r's processing order has a row in the run's
\* schedule, and the date of that row.
Scheduled(r, i) == RowsOf(run[r].schedule, run[r].cases[i].case_id) # {}

DateOf(r, i) ==
    run[r].schedule[CHOOSE k \in RowsOf(run[r].schedule, run[r].cases[i].case_id) : TRUE]
        .hearing_date

\* C28: in what the heuristic returns, a case processed before a scheduled
\* case is scheduled too, on the same day or an earlier one: the dates do
\* not decrease along the processing order and the cases left out are its
\* tail; no case is heard before a case of a strictly higher priority_score.
C28_DatesFollowProcessingOrder ==
    run[1].pc = "done" =>
        /\ run[1].result.rows = run[1].schedule
        /\ \A a, b \in DOMAIN run[1].cases :
              (a < b /\ Scheduled(1, b)) =>
                  /\ Scheduled(1, a)
                  /\ DateOf(1, a) <= DateOf(1, b)
        /\ \A a, b \in DOMAIN run[1].cases :
              (/\ Scheduled(1, a)
               /\ Scheduled(1, b)
               /\ run[1].cases[a].priority_score > run[1].cases[b].priority_score)
                  => DateOf(1, a) <= DateOf(1, b)
        /\ \A a, b \in DOMAIN run[1].cases :
              (/\ Scheduled(1, b)
               /\ run[1].cases[a].priority_score > run[1].cases[b].priority_score)
                  => Scheduled(1, a)

\* Three cases and room for one hearing a day on a horizon of two weekdays:
\* the first two cases processed are heard on consecutive days and the last
\* one, of a lower priority than the first, is left out.
C28_Witness ==
    /\ run[1].pc = "done"
    /\ Len(run[1].cases) = 3
    /\ Len(run[1].schedule) = 2
    /\ Scheduled(1, 1)
    /\ Scheduled(1, 2)
    /\ ~Scheduled(1, 3)
    /\ DateOf(1, 1) < DateOf(1, 2)
    /\ run[1].cases[1].priority_score > run[1].cases[3].priority_score

Min(x, y) == IF x <= y THEN x ELSE y

\* The non-weekend days of the horizon, and the hearings one of them can
\* take: the court's limit or what the judges can hear together.
Weekdays == {d \in HorizonDates : ~IsWeekend(d)}

DayCapacity ==
    Min(max_hearings_per_day, Len(judges_df) * max_hearings_per_judge)

\* C29: the heuristic returns min(N, W x min(max_hearings_per_day, J x
\* max_hearings_per_judge)) rows for N cases, J judges and W non-weekend
\* days in the horizon, and a day has a hearing only if every earlier
\* non-weekend day of the horizon is filled to min(max_hearings_per_day,
\* J x max_hearings_per_judge).
C29_WeekdayCapacityUsed ==
    run[1].pc = "done" =>
        /\ Len(run[1].result.rows) =
              Min(Len(cases_df), Cardinality(Weekdays) * DayCapacity)
        /\ \A i \in DOMAIN run[1].result.rows :
              \A d \in Weekdays :
                  d < run[1].result.rows[i].hearing_date =>
                      CountOn(run[1].result.rows, d) = DayCapacity

\* Two judges with a per-judge limit of 1 under a daily limit of 2, three
\* cases, two weekdays: two hearings on the first day, the third on the
\* second.
C29_Witness ==
    /\ run[1].pc = "done"
    /\ Len(judges_df) = 2
    /\ max_hearings_per_judge = 1
    /\ max_hearings_per_day = 2
    /\ Len(cases_df) = 3
    /\ Cardinality(Weekdays) = 2
    /\ Len(run[1].result.rows) = 3
    /\ CountOn(run[1].result.rows, start_date) = 2
    /\ CountOn(run[1].result.rows, start_date + 1) = 1

\* The kinds of rule the builder declares and validate_schedule has no
\* branch for.
InertTypes ==
    {"minimum_gap", "working_hours_limit", "judge_specialization", "balanced_workload"}

IsChecked(constraint) == constraint.type \notin InertTypes

\* The violations of the rules from rule i on, each rule validated alone,
\* one rule's after the other's in the order of the list.
RECURSIVE ViolationsInOrder(_)
ViolationsInOrder(i) ==
    IF i > Len(constraints) THEN <<>>
    ELSE validate_schedule(schedule_df, <<constraints[i]>>).violations
            \o ViolationsInOrder(i + 1)

====
